---- MODULE Spec2Model ----
(***************************************************************************)
(* The ledger path of hanson: create_transaction_income                    *)
(* (src/hanson/models/transaction.py) run by concurrent request handlers   *)
(* against the shared store.  The store (hanson.database.Transaction), the *)
(* account registry (UserAccount.ensure_points_account) and the SQL        *)
(* function account_current_balance are not part of the sources at hand;   *)
(* they are modelled from the specification: a serializable store in which *)
(* a unit of work reads a stable snapshot plus its own writes, is rolled   *)
(* back on any failure, and is refused at commit after a write conflict.   *)
(***************************************************************************)
EXTENDS Integers, FiniteSets

\* ---------------------------------------------------------------- bounds
NProcs == 2            \* concurrent request handlers
NUsers == 2            \* users that requests may name
MaxAmount == 1         \* requested amounts are -1 and 1..MaxAmount
MaxRetries == 1        \* retries of one request after a write conflict

Procs == 1..NProcs
\* User ids are keys of the user table, unrelated to account ids.
Users == {10 + u : u \in 1..NUsers}
FirstUser == CHOOSE u \in Users : \A v \in Users : u <= v
Amounts == {0 - 1} \cup (1..MaxAmount)

VARIABLES
    account,            \* committed rows of "account": [id, owner_user_id]
    transaction,        \* committed rows of "transaction": [id, type]
    mutation,           \* committed rows of "mutation"
    account_balance,    \* committed rows of "account_balance"
    account_id_seq,     \* next value of the account id sequence
    transaction_id_seq, \* next value of the transaction id sequence
    mutation_id_seq,    \* next value of the mutation id sequence
    pc,                 \* position of each handler in create_transaction_income
    user_id,            \* argument user_id of each handler's request
    amount,             \* argument amount of each handler's request
    attempt,            \* retries already made for the request
    snapshot,           \* committed rows each open unit of work reads from
    pending,            \* uncommitted rows written by each open unit of work
    acct,               \* local `account`: [id, balance]
    transaction_id,     \* local `transaction_id`
    mutation_id,        \* local `mutation_id`
    post_balance        \* local `post_balance`

tables == <<account, transaction, mutation, account_balance>>
seqs == <<account_id_seq, transaction_id_seq, mutation_id_seq>>
args == <<user_id, amount>>
locals == <<acct, transaction_id, mutation_id, post_balance>>
vars == <<account, transaction, mutation, account_balance,
          account_id_seq, transaction_id_seq, mutation_id_seq,
          pc, user_id, amount, attempt, snapshot, pending,
          acct, transaction_id, mutation_id, post_balance>>

NoRows == [account |-> {}, transaction |-> {}, mutation |-> {}, account_balance |-> {}]
NoSnapshot == [account |-> {}, account_balance |-> {}]
NoAccount == [id |-> 0, balance |-> 0]

InFlight == {"resolved", "tx", "mut", "returned"}

\* ------------------------------------------------------- pure operators
RECURSIVE SumAmounts(_)
SumAmounts(rows) ==
    IF rows = {} THEN 0
    ELSE LET r == CHOOSE x \in rows : TRUE
         IN r.amount + SumAmounts(rows \ {r})

\* SQL account_current_balance(account_id): post_balance of the row with the
\* highest mutation_id, NULL (the empty set) when the account has no row.
account_current_balance(rows, account_id) ==
    LET own == {r \in rows : r.account_id = account_id}
    IN {r.post_balance : r \in {x \in own : \A y \in own : y.mutation_id <= x.mutation_id}}

COALESCE(value, default) ==
    IF value = {} THEN default ELSE CHOOSE v \in value : TRUE

\* What an open unit of work reads: its snapshot plus its own writes.
VisibleBalances(p) == snapshot[p].account_balance \cup pending[p].account_balance

\* transaction.py:26
TransactionRow(id) == [id |-> id, type |-> "income"]

\* Mutants of MutationRow: the id of the next transaction, the user id in
\* place of the account id, the amount left out.
MutationRowWrongTransaction(id, tid, a, uid, amt) ==
    [id |-> id, transaction_id |-> tid + 1, account_id |-> a.id, amount |-> amt]

MutationRowUserAsAccount(id, tid, a, uid, amt) ==
    [id |-> id, transaction_id |-> tid, account_id |-> uid, amount |-> amt]

MutationRowNoAmount(id, tid, a, uid, amt) ==
    [id |-> id, transaction_id |-> tid, account_id |-> a.id, amount |-> 0]

\* transaction.py:34-38
MutationRow(id, tid, a, uid, amt) ==
    [id |-> id, transaction_id |-> tid, account_id |-> a.id, amount |-> amt]

\* Mutant of PostBalance: the previous balance is left out.
PostBalanceAmountOnly(rows, account_id, amt) == amt

\* transaction.py:50
PostBalance(rows, account_id, amt) ==
    COALESCE(account_current_balance(rows, account_id), 0) + amt

\* Mutant of BalanceRow: account_id and mutation_id change places.
BalanceRowSwapped(account_id, mid, post) ==
    [account_id |-> mid, mutation_id |-> account_id, post_balance |-> post]

\* transaction.py:45-59
BalanceRow(account_id, mid, post) ==
    [account_id |-> account_id, mutation_id |-> mid, post_balance |-> post]

\* transaction.py:62
IntegrityCheck(amt, balance, post) == amt + balance = post

\* ------------------------------------------------------------ the store
\* Another open unit of work holds an uncommitted account row of this owner:
\* the uniqueness constraint makes the insert wait for it.
OwnerRowPending(p) ==
    \E q \in Procs \ {p} : \E r \in pending[q].account : r.owner_user_id = user_id[p]

\* Rows committed since the snapshot that the unit of work read around.
Conflicting(p) ==
    \/ \E r \in account \ snapshot[p].account : r.owner_user_id = user_id[p]
    \/ \E r \in account_balance \ snapshot[p].account_balance : r.account_id = acct[p].id

Rollback(p) == pending' = [pending EXCEPT ![p] = NoRows]

\* The ledger after one income of `amt` to the first user was committed on its
\* own: the rows create_transaction_income writes, with the first id of each
\* sequence.
LedgerAfterIncome(amt) ==
    [account |-> {[id |-> 1, owner_user_id |-> FirstUser]},
     transaction |-> {TransactionRow(1)},
     mutation |-> {MutationRow(1, 1, [id |-> 1, balance |-> 0], FirstUser, amt)},
     account_balance |-> {BalanceRow(1, 1, PostBalance({}, 1, amt))}]

\* ----------------------------------------------------------------- Init
\* The handlers start on an empty ledger, or on the ledger left by one
\* earlier income of one point.
Init ==
    /\ \/ /\ account = {}
          /\ transaction = {}
          /\ mutation = {}
          /\ account_balance = {}
          /\ account_id_seq = 1
          /\ transaction_id_seq = 1
          /\ mutation_id_seq = 1
       \/ /\ account = LedgerAfterIncome(1).account
          /\ transaction = LedgerAfterIncome(1).transaction
          /\ mutation = LedgerAfterIncome(1).mutation
          /\ account_balance = LedgerAfterIncome(1).account_balance
          /\ account_id_seq = 2
          /\ transaction_id_seq = 2
          /\ mutation_id_seq = 2
    /\ pc = [p \in Procs |-> "idle"]
    /\ user_id = [p \in Procs |-> 0]
    /\ amount = [p \in Procs |-> 0]
    /\ attempt = [p \in Procs |-> 0]
    /\ snapshot = [p \in Procs |-> NoSnapshot]
    /\ pending = [p \in Procs |-> NoRows]
    /\ acct = [p \in Procs |-> NoAccount]
    /\ transaction_id = [p \in Procs |-> 0]
    /\ mutation_id = [p \in Procs |-> 0]
    /\ post_balance = [p \in Procs |-> 0]

\* -------------------------------------------------------------- actions
\* transaction.py:20  account = UserAccount.ensure_points_account(tx, user_id)
\* The first statement of the unit of work, whose snapshot is taken here:
\* the account row of the owner is read, or created when there is none; the
\* insert waits while another open unit of work holds an uncommitted row of
\* the same owner.
EnsurePointsAccount(p, uid) ==
    /\ snapshot' = [snapshot EXCEPT ![p] =
                       [account |-> account, account_balance |-> account_balance]]
    /\ IF \E r \in account : r.owner_user_id = uid
       THEN LET r == CHOOSE x \in account : x.owner_user_id = uid
            IN /\ acct' = [acct EXCEPT ![p] =
                              [id |-> r.id,
                               balance |-> COALESCE(account_current_balance(
                                               account_balance, r.id), 0)]]
               /\ pc' = [pc EXCEPT ![p] = "resolved"]
               /\ UNCHANGED <<pending, account_id_seq>>
       ELSE IF \E q \in Procs \ {p} : \E r \in pending[q].account :
                   r.owner_user_id = uid
            THEN /\ pc' = [pc EXCEPT ![p] = "blocked"]
                 /\ acct' = [acct EXCEPT ![p] = NoAccount]
                 /\ UNCHANGED <<pending, account_id_seq>>
            ELSE /\ pending' = [pending EXCEPT ![p].account =
                                   {[id |-> account_id_seq, owner_user_id |-> uid]}]
                 /\ account_id_seq' = account_id_seq + 1
                 /\ acct' = [acct EXCEPT ![p] = [id |-> account_id_seq, balance |-> 0]]
                 /\ pc' = [pc EXCEPT ![p] = "resolved"]
    /\ UNCHANGED <<tables, transaction_id_seq, mutation_id_seq>>

\* A handler receives a request and calls
\* create_transaction_income(tx, uid, amt) in a new unit of work; each handler
\* serves one request.  Handlers and user ids are interchangeable, so requests
\* go to the handlers in order and a user id is first named only after all
\* smaller ones.
Request(p, uid, amt) ==
    /\ pc[p] = "idle"
    /\ \A q \in Procs : q < p => pc[q] # "idle"
    /\ \A u \in Users : u < uid =>
           \/ \E q \in Procs : pc[q] # "idle" /\ user_id[q] = u
           \/ \E r \in account : r.owner_user_id = u
    /\ user_id' = [user_id EXCEPT ![p] = uid]
    /\ amount' = [amount EXCEPT ![p] = amt]
    /\ EnsurePointsAccount(p, uid)
    /\ UNCHANGED <<attempt, transaction_id, mutation_id, post_balance>>

\* The insert that waited on the uniqueness constraint goes on once the other
\* unit of work has ended: a write conflict if that one committed the row,
\* the insert of its own row if that one was rolled back.
EnsureUnblocked(p) ==
    /\ pc[p] = "blocked"
    /\ ~OwnerRowPending(p)
    /\ IF \E r \in account : r.owner_user_id = user_id[p]
       THEN /\ Rollback(p)
            /\ pc' = [pc EXCEPT ![p] = "conflict"]
            /\ snapshot' = [snapshot EXCEPT ![p] = NoSnapshot]
            /\ UNCHANGED <<account_id_seq, acct>>
       ELSE /\ pending' = [pending EXCEPT ![p].account =
                              {[id |-> account_id_seq, owner_user_id |-> user_id[p]]}]
            /\ account_id_seq' = account_id_seq + 1
            /\ acct' = [acct EXCEPT ![p] = [id |-> account_id_seq, balance |-> 0]]
            /\ pc' = [pc EXCEPT ![p] = "resolved"]
            /\ UNCHANGED snapshot
    /\ UNCHANGED <<tables, transaction_id_seq, mutation_id_seq, args, attempt,
                   transaction_id, mutation_id, post_balance>>

\* transaction.py:23-29
InsertTransaction(p) ==
    /\ pc[p] = "resolved"
    /\ pending' = [pending EXCEPT ![p].transaction =
                      @ \cup {TransactionRow(transaction_id_seq)}]
    /\ transaction_id' = [transaction_id EXCEPT ![p] = transaction_id_seq]
    /\ transaction_id_seq' = transaction_id_seq + 1
    /\ pc' = [pc EXCEPT ![p] = "tx"]
    /\ UNCHANGED <<tables, account_id_seq, mutation_id_seq, args, attempt,
                   snapshot, acct, mutation_id, post_balance>>

\* transaction.py:31-40
InsertMutation(p) ==
    /\ pc[p] = "tx"
    /\ pending' = [pending EXCEPT ![p].mutation =
                      @ \cup {MutationRow(mutation_id_seq, transaction_id[p],
                                          acct[p], user_id[p], amount[p])}]
    /\ mutation_id' = [mutation_id EXCEPT ![p] = mutation_id_seq]
    /\ mutation_id_seq' = mutation_id_seq + 1
    /\ pc' = [pc EXCEPT ![p] = "mut"]
    /\ UNCHANGED <<tables, account_id_seq, transaction_id_seq, args, attempt,
                   snapshot, acct, transaction_id, post_balance>>

\* transaction.py:42-64  the insert of the snapshot row and, in the same
\* block, the assertion; then return transaction_id.  A failed assertion
\* leaves the unit of work through its rollback.
InsertAccountBalance(p) ==
    /\ pc[p] = "mut"
    /\ LET post == PostBalance(VisibleBalances(p), acct[p].id, amount[p])
       IN /\ post_balance' = [post_balance EXCEPT ![p] = post]
          /\ IF IntegrityCheck(amount[p], acct[p].balance, post)
             THEN /\ pending' = [pending EXCEPT ![p].account_balance =
                                  @ \cup {BalanceRow(acct[p].id, mutation_id[p], post)}]
                  /\ pc' = [pc EXCEPT ![p] = "returned"]
                  /\ UNCHANGED snapshot
             ELSE /\ Rollback(p)
                  /\ snapshot' = [snapshot EXCEPT ![p] = NoSnapshot]
                  /\ pc' = [pc EXCEPT ![p] = "failed"]
    /\ UNCHANGED <<tables, seqs, args, attempt, acct, transaction_id, mutation_id>>

\* The unit of work is finalized: all of its rows become visible at once.
\* The store refuses it after a write conflict.
Commit(p) ==
    /\ pc[p] = "returned"
    /\ ~Conflicting(p)
    /\ account' = account \cup pending[p].account
    /\ transaction' = transaction \cup pending[p].transaction
    /\ mutation' = mutation \cup pending[p].mutation
    /\ account_balance' = account_balance \cup pending[p].account_balance
    /\ pending' = [pending EXCEPT ![p] = NoRows]
    /\ snapshot' = [snapshot EXCEPT ![p] = NoSnapshot]
    /\ pc' = [pc EXCEPT ![p] = "committed"]
    /\ UNCHANGED <<seqs, args, attempt, locals>>

\* The store reports the write conflict (a serialization failure) at some
\* statement of the unit of work, which is rolled back.
WriteConflict(p) ==
    /\ pc[p] \in InFlight
    /\ Conflicting(p)
    /\ Rollback(p)
    /\ snapshot' = [snapshot EXCEPT ![p] = NoSnapshot]
    /\ pc' = [pc EXCEPT ![p] = "conflict"]
    /\ UNCHANGED <<tables, seqs, args, attempt, locals>>

\* A conflict is retried from scratch, a bounded number of times.
Retry(p) ==
    /\ pc[p] = "conflict"
    /\ attempt[p] < MaxRetries
    /\ attempt' = [attempt EXCEPT ![p] = @ + 1]
    /\ transaction_id' = [transaction_id EXCEPT ![p] = 0]
    /\ mutation_id' = [mutation_id EXCEPT ![p] = 0]
    /\ post_balance' = [post_balance EXCEPT ![p] = 0]
    /\ EnsurePointsAccount(p, user_id[p])
    /\ UNCHANGED args

Next ==
    \E p \in Procs :
        \/ \E uid \in Users, amt \in Amounts : Request(p, uid, amt)
        \/ EnsureUnblocked(p)
        \/ InsertTransaction(p)
        \/ InsertMutation(p)
        \/ InsertAccountBalance(p)
        \/ Commit(p)
        \/ WriteConflict(p)
        \/ Retry(p)

Spec == Init /\ [][Next]_vars

\* ------------------------------------------------- the committed ledger
\* current_balance(account_id): the latest snapshot's post_balance, or zero.
CurrentBalance(a) == COALESCE(account_current_balance(account_balance, a), 0)

MutationsOf(a) == {m \in mutation : m.account_id = a}
SnapshotsOf(a) == {b \in account_balance : b.account_id = a}

\* Every account id the sequence handed out, and the next one (never used).
AccountIds == 1..account_id_seq

\* The balance before snapshot b of its account: the post_balance of the
\* snapshot with the next lower mutation_id, zero for the first.
PreviousBalance(b) ==
    COALESCE(account_current_balance(
                 {x \in SnapshotsOf(b.account_id) : x.mutation_id < b.mutation_id},
                 b.account_id), 0)

\* p's account had no mutation before those of handlers p and q.
FreshBefore(p, q) ==
    \A m \in MutationsOf(acct[p].id) : m.id \in {mutation_id[p], mutation_id[q]}

ConservationIncome ==
    [][\A p \in Procs :
          (pc[p] = "returned" /\ pc'[p] = "committed" /\ amount[p] > 0)
          => /\ COALESCE(account_current_balance(account_balance', acct[p].id), 0)
                    = CurrentBalance(acct[p].id) + amount[p]
             /\ transaction' \ transaction =
                    {[id |-> transaction_id[p], type |-> "income"]}
             /\ mutation' \ mutation =
                    {[id |-> mutation_id[p], transaction_id |-> transaction_id[p],
                      account_id |-> acct[p].id, amount |-> amount[p]]}
             /\ \E b \in account_balance' :
                    /\ account_balance' \ account_balance = {b}
                    /\ b.account_id = acct[p].id
                    /\ b.mutation_id = mutation_id[p]]_vars

\* An income of a positive amount has committed on an account with an earlier
\* balance, and no other handler has named that user.
ConservationIncomeWitness ==
    \E p \in Procs :
        /\ pc[p] = "committed"
        /\ amount[p] > 0
        /\ acct[p].balance # 0
        /\ \A q \in Procs \ {p} : user_id[q] # user_id[p]
        /\ CurrentBalance(acct[p].id) = acct[p].balance + amount[p]

\* C3  Replay equivalence: for every account the current balance equals the
\* sum of the amounts of its committed mutations (zero for a fresh account).
ReplayEquivalence ==
    \A a \in AccountIds : CurrentBalance(a) = SumAmounts(MutationsOf(a))

\* An account has three committed mutations, one of them written by a handler
\* that was retried after a write conflict, and a balance other than zero.
ReplayEquivalenceWitness ==
    \E a \in AccountIds :
        /\ Cardinality(MutationsOf(a)) >= 3
        /\ CurrentBalance(a) # 0
        /\ \E p \in Procs : pc[p] = "committed" /\ attempt[p] >= 1 /\ acct[p].id = a

\* C4  Atomicity: after a failed attempt none of its rows is observable, and
\* the committed ledger never holds a transaction without its mutation, a
\* mutation without its transaction or snapshot, or a snapshot without its
\* mutation.
Atomicity ==
    /\ \A p \in Procs :
          pc[p] \in {"conflict", "failed"}
          => /\ pending[p] = NoRows
             /\ \A t \in transaction : t.id # transaction_id[p]
             /\ \A m \in mutation : m.id # mutation_id[p] \/ mutation_id[p] = 0
             /\ \A b \in account_balance :
                    b.mutation_id # mutation_id[p] \/ mutation_id[p] = 0
    /\ \A t \in transaction : \E m \in mutation : m.transaction_id = t.id
    /\ \A m \in mutation :
          /\ \E t \in transaction : t.id = m.transaction_id
          /\ \E b \in account_balance :
                 b.mutation_id = m.id /\ b.account_id = m.account_id
    /\ \A b \in account_balance :
          \E m \in mutation : m.id = b.mutation_id /\ m.account_id = b.account_id

\* An attempt that had inserted its transaction, mutation and snapshot rows
\* was rolled back on a write conflict, beside a committed income.
AtomicityWitness ==
    \E p \in Procs :
        /\ pc[p] = "conflict"
        /\ transaction_id[p] # 0 /\ mutation_id[p] # 0 /\ post_balance[p] # 0
        /\ \E q \in Procs : pc[q] = "committed" /\ acct[q].id = acct[p].id

\* C5  Income validation: every committed mutation of an income transaction
\* has an amount greater than zero.
IncomeAmountsPositive ==
    \A m \in mutation :
        (\E t \in transaction : t.id = m.transaction_id /\ t.type = "income")
        => m.amount > 0

\* C6  Idempotent account creation: at most one account row per owner; all
\* handlers whose unit of work is open or committed see the same account id
\* for the same user, the id of the committed row if there is one; and a
\* committed income's mutation is on the account of its user.
IdempotentAccount ==
    /\ \A r1, r2 \in account : r1.owner_user_id = r2.owner_user_id => r1 = r2
    /\ \A p \in Procs :
          pc[p] \in InFlight \cup {"committed"}
          => /\ \A q \in Procs :
                    (pc[q] \in InFlight \cup {"committed"} /\ user_id[q] = user_id[p])
                    => acct[q].id = acct[p].id
             /\ \A r \in account : r.owner_user_id = user_id[p] => r.id = acct[p].id
    /\ \A p \in Procs :
          pc[p] = "committed"
          => /\ [id |-> acct[p].id, owner_user_id |-> user_id[p]] \in account
             /\ \E m \in mutation : m.id = mutation_id[p] /\ m.account_id = acct[p].id

\* Two handlers raced to create the account of one user: the one that waited
\* was retried and both have committed on the one account row.
IdempotentAccountWitness ==
    \E p, q \in Procs :
        /\ p # q
        /\ pc[p] = "committed" /\ pc[q] = "committed"
        /\ user_id[p] = user_id[q]
        /\ transaction_id[p] = 1
        /\ attempt[q] = 1
        /\ transaction_id_seq = 3
        /\ acct[p].id = acct[q].id
        /\ Cardinality({r \in account : r.owner_user_id = user_id[p]}) = 1

\* C9  Snapshot chain: every snapshot of an account is bound to a mutation of
\* that account, and its post_balance is the previous snapshot's post_balance
\* (zero for the first) plus the amount of that mutation.
SnapshotChain ==
    \A b \in account_balance :
        \E m \in mutation :
            /\ m.id = b.mutation_id
            /\ m.account_id = b.account_id
            /\ b.post_balance = PreviousBalance(b) + m.amount

\* An account has a chain of three snapshots, the last two written by
\* handlers of which one was rolled back on a write conflict and retried.
SnapshotChainWitness ==
    \E p, q \in Procs :
        /\ p # q
        /\ pc[p] = "committed" /\ pc[q] = "committed"
        /\ acct[p].id = acct[q].id
        /\ attempt[q] = 1
        /\ mutation_id[q] > mutation_id[p] + 1
        /\ Cardinality(SnapshotsOf(acct[p].id)) = 3

\* C10 as stated: the assertion never fails, and when a unit of work writes
\* its snapshot the balance it read when it resolved the account is still the
\* account's current balance (no other snapshot write on the account was
\* committed in between).
IntegrityNoInterleaving ==
    [][\A p \in Procs :
          (pc[p] = "mut" /\ pc'[p] # "mut")
          => /\ pc'[p] = "returned"
             /\ acct[p].balance = CurrentBalance(acct[p].id)]_vars

\* C10 as amended: the assertion amount + account.balance == post_balance
\* never fails, and whenever a unit of work is able to commit, the balance it
\* read when it resolved the account is still the account's current balance.
IntegrityAssertion ==
    \A p \in Procs :
        /\ pc[p] # "failed"
        /\ pc[p] \in {"returned", "committed"}
           => IntegrityCheck(amount[p], acct[p].balance, post_balance[p])
        /\ (pc[p] = "returned" /\ ~Conflicting(p))
           => acct[p].balance = CurrentBalance(acct[p].id)

\* The assertion has passed in a unit of work that read a balance other than
\* zero while another unit of work on the same account is open.
IntegrityAssertionWitness ==
    \E p, q \in Procs :
        /\ p # q
        /\ pc[p] = "returned" /\ ~Conflicting(p)
        /\ acct[p].balance # 0
        /\ pc[q] \in {"mut", "returned"}
        /\ acct[q].id = acct[p].id

====
